---------------------------- MODULE Spec2Model ----------------------------
(***************************************************************************)
(* Model of coletor_x.py: the collection cycle of the X/Nitter collector.  *)
(* The browser, yt-dlp, ffprobe, Whisper and Tesseract are collaborators:  *)
(* their answers are inputs drawn from small sets.  The ledger file, the   *)
(* output directory and the download directory are part of the state.      *)
(***************************************************************************)
EXTENDS Naturals, Sequences, FiniteSets

(* ------------------------------ bounds --------------------------------- *)
\* post identifiers that occur in the listings
NumIds == 2
\* cycles started, counted over all process runs
MaxCiclos == 2
\* process restarts after a termination
MaxReinicios == 1
\* length of the short result pages
MaxItens == 2
\* consecutive calls of download_midia in SpecDM
MaxChamadas == 2
\* items of a long result page beyond MAX_RESULTADOS_POR_BUSCA
MaxAlem == 1

(* ------------------------- program constants --------------------------- *)
MAX_RESULTADOS_POR_BUSCA == 20
DELETAR_MIDIA_APOS_COLETA == TRUE
LISTA_DE_BUSCAS == <<"t1", "t2">>
\* range(1, 4): attempts 1, 2, 3
MAX_TENTATIVAS == 3
SALT_LGPD == "dAurora_Salt"

Ids == 1..NumIds
\* post_id = None (no permalink in the item)
SemId == 0
\* caminho_midia = None
SemCaminho == <<>>
\* transcricao = None
SemTexto == "None"

ImgExts == {"jpg"}
VideoExts == {"mp4"}
\* "part": a partial file of yt-dlp, neither an image nor a video extension
Exts == ImgExts \cup VideoExts \cup {"part"}
\* directory order of the files of one post
OrdemExt == <<"jpg", "mp4", "part">>

(* ----------------------------- small helpers --------------------------- *)
Min_m(a, b) == a
Min(a, b) == IF a < b THEN a ELSE b

RECURSIVE IdsDe(_)
\* [post["dados_postagem"]["id_post"] for post in novos_posts]
IdsDe(posts) ==
    IF posts = <<>> THEN <<>>
    ELSE <<Head(posts).id_post>> \o IdsDe(Tail(posts))

Elems(s) == {s[k] : k \in 1..Len(s)}

Vezes(s, x) == Cardinality({k \in 1..Len(s) : s[k] = x})

(* -------------------- float: IEEE 754 binary64 values ------------------ *)
\* A positive double is [m |-> its 53 significand bits, most significant
\* first, e |-> the exponent of the first bit]; Zero is 0.0.  Sequences of
\* bits, and of groups of ten bits (base 1024), stand for the integers that
\* do not fit the integers of the checker.
BitsMantissa == 53
BitsGrupo == 10
Base == 2 ^ BitsGrupo
\* groups of the quotient computed before rounding
GruposQuociente == 8
\* bits of an integer of the checker
BitsInteiro == 31

Zero == [m |-> <<>>, e |-> 0]

\* a sequence of bits without its leading zeros
SemZeros(bits) ==
    IF \A k \in 1..Len(bits) : bits[k] = 0 THEN <<>>
    ELSE LET z == CHOOSE k \in 1..Len(bits) :
                      bits[k] = 1 /\ \A j \in 1..(k - 1) : bits[j] = 0
         IN  SubSeq(bits, z, Len(bits))

\* the bits of a natural, most significant first (<<>> for 0)
BitsDe(n) ==
    SemZeros([k \in 1..BitsInteiro |-> (n \div 2 ^ (BitsInteiro - k)) % 2])

\* the bits of a sequence of groups
BitsDosGrupos(grupos) ==
    [i \in 1..(BitsGrupo * Len(grupos)) |->
        (grupos[((i - 1) \div BitsGrupo) + 1]
            \div 2 ^ (BitsGrupo - 1 - ((i - 1) % BitsGrupo))) % 2]

RECURSIVE ValorDe(_)
\* the natural of a sequence of bits
ValorDe(bits) ==
    IF bits = <<>> THEN 0
    ELSE 2 * ValorDe(SubSeq(bits, 1, Len(bits) - 1)) + bits[Len(bits)]

\* the groups of a sequence of bits, zeros added in front
GruposDosBits(bits) ==
    LET g == (Len(bits) + BitsGrupo - 1) \div BitsGrupo
        cheio == [k \in 1..(g * BitsGrupo - Len(bits)) |-> 0] \o bits
    IN  [k \in 1..g |->
            ValorDe(SubSeq(cheio, (k - 1) * BitsGrupo + 1, k * BitsGrupo))]

RECURSIVE Fracao(_, _, _)
\* k groups of r / d after the binary point (r < d), then the remainder
Fracao(r, d, k) ==
    IF k = 0 THEN [grupos |-> <<>>, resto |-> r]
    ELSE LET f == Fracao((r * Base) % d, d, k - 1)
         IN  [grupos |-> <<(r * Base) \div d>> \o f.grupos, resto |-> f.resto]

\* bits + 1 (one bit longer when every bit was 1)
Incrementa(bits) ==
    IF \A k \in 1..Len(bits) : bits[k] = 1
    THEN <<1>> \o [k \in 1..Len(bits) |-> 0]
    ELSE LET z == CHOOSE k \in 1..Len(bits) :
                      bits[k] = 0 /\ \A j \in (k + 1)..Len(bits) : bits[j] = 1
         IN  [k \in 1..Len(bits) |->
                 IF k < z THEN bits[k] ELSE IF k = z THEN 1 ELSE 0]

RECURSIVE Multiplica(_, _, _)
\* grupos * c + carry for a natural c below Base * Base
Multiplica(grupos, c, carry) ==
    IF grupos = <<>> THEN <<carry \div Base, carry % Base>>
    ELSE Append(Multiplica(SubSeq(grupos, 1, Len(grupos) - 1), c,
                      (grupos[Len(grupos)] * c + carry) \div Base),
                (grupos[Len(grupos)] * c + carry) % Base)

\* round to nearest, ties to even: sig are the significant bits (first bit 1)
\* of a value whose first bit has exponent e, resto says whether bits that
\* are not in sig are set
Arredonda(sig, e, resto) ==
    IF Len(sig) <= BitsMantissa
    THEN [m |-> sig \o [k \in 1..(BitsMantissa - Len(sig)) |-> 0], e |-> e]
    ELSE LET m == SubSeq(sig, 1, BitsMantissa)
             guarda == sig[BitsMantissa + 1]
             mais == resto \/ \E k \in (BitsMantissa + 2)..Len(sig) : sig[k] = 1
             sobe == guarda = 1 /\ (mais \/ m[BitsMantissa] = 1)
             m2 == IF sobe THEN Incrementa(m) ELSE m
         IN  IF Len(m2) > BitsMantissa
             THEN [m |-> SubSeq(m2, 1, BitsMantissa), e |-> e + 1]
             ELSE [m |-> m2, e |-> e]

\* float("n/d"): the double nearest to the decimal n / d (d a power of ten)
float(n, d) ==
    IF n = 0 THEN Zero
    ELSE LET inteiro == BitsDe(n \div d)
             f == Fracao(n % d, d, GruposQuociente)
             todos == inteiro \o BitsDosGrupos(f.grupos)
             sig == SemZeros(todos)
         IN  Arredonda(sig, Len(inteiro) - 1 - (Len(todos) - Len(sig)),
                       f.resto # 0)

\* x * c in doubles, c a natural that is a double itself
Produto(x, c) ==
    IF x = Zero THEN Zero
    ELSE LET p == SemZeros(BitsDosGrupos(Multiplica(GruposDosBits(x.m), c, 0)))
         IN  Arredonda(p, x.e + (Len(p) - BitsMantissa), FALSE)

\* int(x): the integer part of a double
int(x) ==
    IF x = Zero \/ x.e < 0 THEN 0
    ELSE ValorDe(SubSeq(x.m, 1, x.e + 1))

(* ------------------------- texts and their parsing -------------------- *)
\* A text is the sequence of its characters.
DIGITOS == <<"0", "1", "2", "3", "4", "5", "6", "7", "8", "9">>
MAIUSCULAS == <<"A", "B", "C", "D", "E", "F", "G", "H", "I", "J", "K", "L", "M",
                "N", "O", "P", "Q", "R", "S", "T", "U", "V", "W", "X", "Y", "Z">>
MINUSCULAS == <<"a", "b", "c", "d", "e", "f", "g", "h", "i", "j", "k", "l", "m",
                "n", "o", "p", "q", "r", "s", "t", "u", "v", "w", "x", "y", "z">>

Digito(c) == \E k \in 1..Len(DIGITOS) : DIGITOS[k] = c

ValorDigito(c) == (CHOOSE k \in 1..Len(DIGITOS) : DIGITOS[k] = c) - 1

\* str.strip() of a text whose only white space is " "
strip(t) ==
    IF \A k \in 1..Len(t) : t[k] = " " THEN <<>>
    ELSE SubSeq(t, CHOOSE a \in 1..Len(t) :
                       t[a] # " " /\ \A j \in 1..(a - 1) : t[j] = " ",
                   CHOOSE b \in 1..Len(t) :
                       t[b] # " " /\ \A j \in (b + 1)..Len(t) : t[j] = " ")

\* str.lower()
lower(t) ==
    [k \in 1..Len(t) |->
        IF \E j \in 1..Len(MAIUSCULAS) : MAIUSCULAS[j] = t[k]
        THEN MINUSCULAS[CHOOSE j \in 1..Len(MAIUSCULAS) : MAIUSCULAS[j] = t[k]]
        ELSE t[k]]

\* c in t
Contem(t, c) == \E k \in 1..Len(t) : t[k] = c

\* t.replace(c, '') for a character c
Sem(t, c) == LET Outro(x) == x # c IN SelectSeq(t, Outro)

\* re.sub(r'[^\d.km]', '', t)
text_limpo(t) ==
    LET Fica(c) == Digito(c) \/ c \in {".", "k", "m"} IN SelectSeq(t, Fica)

\* float(t) does not raise ValueError, for a text of digits, "." and letters
Numero(t) ==
    /\ \A k \in 1..Len(t) : Digito(t[k]) \/ t[k] = "."
    /\ \E k \in 1..Len(t) : Digito(t[k])
    /\ Cardinality({k \in 1..Len(t) : t[k] = "."}) <= 1

RECURSIVE Inteiro(_)
\* int(t) for a text of digits (0 for the empty text)
Inteiro(t) ==
    IF t = <<>> THEN 0
    ELSE 10 * Inteiro(SubSeq(t, 1, Len(t) - 1)) + ValorDigito(t[Len(t)])

\* the numerator and the denominator of the decimal written in t
Numerador(t) == Inteiro(Sem(t, "."))

Denominador(t) ==
    IF Contem(t, ".")
    THEN 10 ^ (Len(t) - CHOOSE k \in 1..Len(t) : t[k] = ".")
    ELSE 1

multiplicador(limpo) ==
    IF Contem(limpo, "k") THEN 1000
    ELSE IF Contem(limpo, "m") THEN 1000000
    ELSE 1

parse_stat_value(text) ==
    LET t == lower(strip(text))
        limpo == text_limpo(t)
        resto == IF Contem(limpo, "k") THEN Sem(limpo, "k")
                 ELSE IF Contem(limpo, "m") THEN Sem(limpo, "m")
                 ELSE limpo
    IN  IF t = <<>> THEN 0
        ELSE IF Numero(resto)
        THEN int(Produto(float(Numerador(resto), Denominador(resto)),
                         multiplicador(limpo)))
        ELSE 0

(* --------------------------- converter_data_para_iso ------------------- *)
\* The result of a function that returns Optional[str].
None == [none |-> TRUE]

Str(t) == [none |-> FALSE, str |-> t]

\* the k-th element of a set of naturals, in increasing order
Kesimo(S, k) == CHOOSE i \in S : Cardinality({j \in S : j <= i}) = k

\* sub is in t at position j
Ocorre(t, sub, j) ==
    /\ j >= 1
    /\ j + Len(sub) - 1 <= Len(t)
    /\ SubSeq(t, j, j + Len(sub) - 1) = sub

\* t.replace(sub, '') for a text sub no two occurrences of which overlap
replace(t, sub) ==
    LET fica == {i \in 1..Len(t) :
                    ~\E j \in (i - Len(sub) + 1)..i : Ocorre(t, sub, j)}
    IN  [k \in 1..Cardinality(fica) |-> t[Kesimo(fica, k)]]

\* t.split() of a text whose only white space is " "
split(t) ==
    LET inicios == {i \in 1..Len(t) : t[i] # " " /\ (i = 1 \/ t[i - 1] = " ")}
        Fim(i) == CHOOSE j \in i..Len(t) :
                      /\ \A k \in i..j : t[k] # " "
                      /\ j = Len(t) \/ t[j + 1] = " "
    IN  [k \in 1..Cardinality(inicios) |->
            SubSeq(t, Kesimo(inicios, k), Fim(Kesimo(inicios, k)))]

\* the keys of meses, in the order of their values '01' to '12'
MESES == << <<"J", "a", "n">>, <<"F", "e", "b">>, <<"M", "a", "r">>,
            <<"A", "p", "r">>, <<"M", "a", "y">>, <<"J", "u", "n">>,
            <<"J", "u", "l">>, <<"A", "u", "g">>, <<"S", "e", "p">>,
            <<"O", "c", "t">>, <<"N", "o", "v">>, <<"D", "e", "c">> >>

EhMes(p) == \E k \in 1..Len(MESES) : MESES[k] = p

meses(p) == CHOOSE k \in 1..Len(MESES) : MESES[k] = p

\* int(p) does not raise ValueError, for a text without sign, "_" or space
EhInteiro(p) == p # <<>> /\ \A k \in 1..Len(p) : Digito(p[k])

\* p.split(':') has two parts
DuasPartes(p) == Cardinality({k \in 1..Len(p) : p[k] = ":"}) = 1

Antes(p) == SubSeq(p, 1, (CHOOSE k \in 1..Len(p) : p[k] = ":") - 1)

Depois(p) == SubSeq(p, (CHOOSE k \in 1..Len(p) : p[k] = ":") + 1, Len(p))

AM == <<"A", "M">>
PM == <<"P", "M">>

hora24_m(hora, am_pm) ==
    IF am_pm = PM THEN hora + 12
    ELSE IF am_pm = AM /\ hora = 12 THEN 0
    ELSE hora

\* the hour of the day of an hour and its marker
hora24(hora, am_pm) ==
    IF am_pm = PM /\ hora # 12 THEN hora + 12
    ELSE IF am_pm = AM /\ hora = 12 THEN 0
    ELSE hora

Bissexto(ano) == ano % 4 = 0 /\ (ano % 100 # 0 \/ ano % 400 = 0)

DiasDoMes(ano, mes) ==
    IF mes = 2 THEN (IF Bissexto(ano) THEN 29 ELSE 28)
    ELSE IF mes \in {4, 6, 9, 11} THEN 30
    ELSE 31

\* datetime(ano, mes, dia, hora, minuto) does not raise ValueError
DataValida(ano, mes, dia, hora, minuto) ==
    /\ ano \in 1..9999
    /\ mes \in 1..12
    /\ dia \in 1..DiasDoMes(ano, mes)
    /\ hora \in 0..23
    /\ minuto \in 0..59

RECURSIVE Decimal(_)
\* the digits of a positive natural
Decimal(n) ==
    IF n = 0 THEN <<>> ELSE Append(Decimal(n \div 10), DIGITOS[(n % 10) + 1])

\* a natural below 100 in two digits
Dois(n) == <<DIGITOS[(n \div 10) + 1], DIGITOS[(n % 10) + 1]>>

\* data_obj.strftime('%Y-%m-%dT%H:%M:%SZ'), the seconds of data_obj being 0
strftime(ano, mes, dia, hora, minuto) ==
    Decimal(ano) \o <<"-">> \o Dois(mes) \o <<"-">> \o Dois(dia) \o <<"T">>
        \o Dois(hora) \o <<":">> \o Dois(minuto) \o <<":", "0", "0", "Z">>

converter_data_para_iso(data_texto) ==
    IF data_texto = <<>> THEN None
    ELSE LET data_limpa == strip(replace(replace(data_texto, <<"·", " ">>),
                                         <<" ", "U", "T", "C">>))
             partes == split(Sem(data_limpa, ","))
         IN  IF /\ Len(partes) >= 5
                /\ EhMes(partes[1])
                /\ DuasPartes(partes[4])
                /\ EhInteiro(Antes(partes[4]))
                /\ EhInteiro(Depois(partes[4]))
                /\ EhInteiro(partes[3])
                /\ EhInteiro(partes[2])
                /\ DataValida(Inteiro(partes[3]), meses(partes[1]),
                              Inteiro(partes[2]),
                              hora24(Inteiro(Antes(partes[4])), partes[5]),
                              Inteiro(Depois(partes[4])))
             THEN Str(strftime(Inteiro(partes[3]), meses(partes[1]),
                               Inteiro(partes[2]),
                               hora24(Inteiro(Antes(partes[4])), partes[5]),
                               Inteiro(Depois(partes[4]))))
             ELSE Str(data_texto)

(* ------------------------- ledger file helpers ------------------------- *)
\* carregar_ids_ja_coletados: the set of lines, or set() when the read fails
carregar_ids_ja_coletados(arquivo, leitura_ok) ==
    IF leitura_ok THEN Elems(arquivo) ELSE {}

\* salvar_novos_ids: append, the exception is swallowed (file left as it was)
salvar_novos_ids(arquivo, novos_ids, escrita_ok) ==
    IF escrita_ok THEN arquivo \o novos_ids ELSE arquivo

(* ----------------------------- download_midia -------------------------- *)
\* pasta_destino.glob(f"{post_id}.*")
glob(pasta, post_id) == {f \in pasta : f[1] = post_id}

\* arquivos[0]: the first match in directory order
Primeiro(arquivos) ==
    LET k == CHOOSE j \in 1..Len(OrdemExt) :
                 /\ \E f \in arquivos : f[2] = OrdemExt[j]
                 /\ \A i \in 1..(j - 1) : \A f \in arquivos : f[2] # OrdemExt[i]
    IN  CHOOSE f \in arquivos : f[2] = OrdemExt[k]

\* what one run of yt-dlp answers: res in ok / e403 / erro / timeout, and the
\* file it leaves in the directory ("" for none)
Respostas ==
    [res : {"ok"}, deixa : {"", "jpg", "mp4"}]
        \cup [res : {"timeout"}, deixa : {"", "part"}]
        \cup [res : {"e403", "erro"}, deixa : {""}]

RespostaFinal == [res |-> "erro", deixa |-> ""]

\* the answers to attempts 1..3; the entries after the first answer that is
\* not a 403 are never asked for by the code and are fixed
Planos ==
    {p \in [1..MAX_TENTATIVAS -> Respostas] :
        \A k \in 2..MAX_TENTATIVAS :
            (\E j \in 1..(k - 1) : p[j].res # "e403") => p[k] = RespostaFinal}

\* the plans a cycle is run against: the cycle depends on a download only
\* through its result, the file returned and the files left behind
PlanosColeta ==
    {p \in Planos :
        \/ /\ p[MAX_TENTATIVAS] = RespostaFinal
           /\ p[2].res \in {"ok", "erro"}
           /\ p[2].deixa \in {"", "mp4"}
        \/ \A k \in 1..MAX_TENTATIVAS : p[k] = [res |-> "e403", deixa |-> ""]}

\* subprocess.run(cmd, ...): the effect of yt-dlp on the directory
yt_dlp(pasta, post_id, r) ==
    IF r.deixa = "" THEN pasta ELSE pasta \cup {<<post_id, r.deixa>>}

Bloqueado_m(r) == r.res # "ok"
\* '403' in erro_yt_dlp or 'forbidden' in erro_yt_dlp
Bloqueado(r) == r.res = "e403"

Resultado(ok, caminho, pasta, eventos) ==
    [sucesso |-> ok, caminho |-> caminho, pasta |-> pasta, eventos |-> eventos]

RECURSIVE tentar(_, _, _, _, _)
\* the body of "for tentativa in range(1, 4)"
tentar(pasta, post_id, tool, tentativa, eventos) ==
    IF tentativa > MAX_TENTATIVAS
    THEN Resultado(FALSE, SemCaminho, pasta, eventos)
    ELSE LET r == tool[tentativa]
             p2 == yt_dlp(pasta, post_id, r)
             ev == Append(eventos, "yt-dlp")
             baixados == glob(p2, post_id)
         IN  IF r.res = "ok"
             THEN IF baixados # {}
                  THEN Resultado(TRUE, Primeiro(baixados), p2, ev)
                  ELSE Resultado(FALSE, SemCaminho, p2, ev)
             ELSE IF r.res = "timeout"
             THEN Resultado(FALSE, SemCaminho, p2, ev)
             ELSE IF Bloqueado(r)
             THEN IF tentativa < 3
                  THEN tentar(p2, post_id, tool, tentativa + 1, Append(ev, "sleep"))
                  ELSE tentar(p2, post_id, tool, tentativa + 1, ev)
             ELSE Resultado(FALSE, SemCaminho, p2, ev)

Existente_m(pasta, post_id) == {}
\* arquivos_existentes = list(pasta_destino.glob(f"{post_id}.*"))
Existente(pasta, post_id) == glob(pasta, post_id)

download_midia(pasta, post_id, tool) ==
    IF Existente(pasta, post_id) # {}
    THEN Resultado(TRUE, Primeiro(Existente(pasta, post_id)), pasta, <<>>)
    ELSE tentar(pasta, post_id, tool, 1, <<>>)

\* caminho_midia.suffix of a result ("" when there is no file)
ExtDe(d) == IF d.sucesso THEN d.caminho[2] ELSE ""

\* the number of runs of yt-dlp in a call
Chamadas(eventos) == Vezes(eventos, "yt-dlp")

(* --------------------------- content extraction ------------------------ *)
\* the answers of ffprobe, Whisper and Tesseract for one file
Extracoes ==
    [probe : {"audio"}, whisper : BOOLEAN, ocr : {TRUE}]
        \cup [probe : {"sem_audio", "erro"}, whisper : {TRUE}, ocr : {TRUE}]
        \cup [probe : {"audio"}, whisper : {TRUE}, ocr : {FALSE}]

ExtracaoPadrao == [probe |-> "audio", whisper |-> TRUE, ocr |-> TRUE]

\* the answers that matter for a file of extension ext ("" when none)
ExtracoesDe(ext) ==
    IF ext \in ImgExts THEN {x \in Extracoes : x.probe = "audio" /\ x.whisper}
    ELSE IF ext \in VideoExts THEN {x \in Extracoes : x.ocr}
    ELSE {ExtracaoPadrao}

midia_tem_audio_m(existe, probe) == existe
\* False when the file is missing, when ffprobe fails and when it prints
\* no audio stream
midia_tem_audio(existe, probe) == existe /\ probe = "audio"

transcrever_imagem_ocr_m(ocr) == "texto"
\* transcrever_imagem_ocr: the text, or None when pytesseract raises
transcrever_imagem_ocr(ocr) == IF ocr THEN "texto" ELSE SemTexto

\* transcrever_video: (True, text) or (False, None)
transcrever_video(whisper) ==
    IF whisper THEN [sucesso |-> TRUE, texto |-> "texto"]
    ELSE [sucesso |-> FALSE, texto |-> SemTexto]

\* os.remove(caminho_midia) under DELETAR_MIDIA_APOS_COLETA
remover(pasta, caminho) ==
    IF DELETAR_MIDIA_APOS_COLETA /\ caminho \in pasta
    THEN pasta \ {caminho} ELSE pasta

(* ------------------------------ listing items -------------------------- *)
\* username = None (no a.username in the item, or an empty handle)
SemUsuario == ""

\* the handles of the authors
Usuarios == <<"joao123", "maria">>

\* the author of post i
UsuarioDe(i) == Usuarios[(i % Len(Usuarios)) + 1]

\* one div.tweet-card: the identifier of its permalink (SemId when absent),
\* whether its text is non-empty and accepted by verificar_idioma_portugues,
\* the handle of a.username (SemUsuario when absent), whether the date
\* anchor has its title, and the attachment marker ("" for none)
Completo(i, m) ==
    [id |-> i, texto |-> TRUE, username |-> UsuarioDe(i), title |-> TRUE,
     midia |-> m]

ItemSemId == [Completo(SemId, "") EXCEPT !.texto = TRUE]

\* the items of the listings: every post plain or with a video, the first
\* post also with an image, and the items that lack one required part
Itens ==
    {Completo(i, m) : i \in Ids, m \in {"", "video"}}
        \cup {Completo(1, "imagem"),
              [Completo(1, "video") EXCEPT !.texto = FALSE],
              [Completo(1, "video") EXCEPT !.username = SemUsuario],
              [Completo(1, "video") EXCEPT !.title = FALSE],
              ItemSemId}

RECURSIVE SeqAte(_, _)
\* the sequences over S of length 1..n
SeqAte(S, n) ==
    IF n = 0 THEN {}
    ELSE LET menores == SeqAte(S, n - 1)
         IN  {<<x>> : x \in S} \cup menores
                 \cup {Append(s, x) : s \in menores, x \in S}

\* the lengths of the result pages (at least one item: the wait for a post
\* container succeeded); the items of a page are independent inputs, read in
\* document order, and are drawn when the loop reaches them
Tamanhos == 1..MaxItens

(* ------------------------------ post extractor ------------------------- *)
JaColetado_m(post_id, ledger) == FALSE
\* post_id in posts_ja_coletados
JaColetado(post_id, ledger) == post_id \in ledger

Registrar_m(ledger, post_id) == ledger
\* posts_ja_coletados.add(post_id)
Registrar(ledger, post_id) == ledger \cup {post_id}

pseudonimizar_usuario_m(username) == [sha256 |-> username]
\* hashlib.sha256(f"{username}{SALT_LGPD}".encode('utf-8')).hexdigest(): the
\* digest is kept as the text that was hashed
pseudonimizar_usuario(username) == [sha256 |-> username \o SALT_LGPD]

\* post_final, reduced to the identifier, the pseudonymized author and the
\* attachments
post_final(item, anexos) ==
    [id_post |-> item.id,
     id_pseudonimizado |-> pseudonimizar_usuario(item.username),
     anexos |-> anexos]

\* anexos_list.append({...}), reduced to the extracted text
Anexo(item, transcricao) == <<[transcricao |-> transcricao]>>

\* an item that reaches download_midia
Baixa(item, ledger) ==
    /\ item.id # SemId /\ ~JaColetado(item.id, ledger)
    /\ item.texto /\ item.username # SemUsuario /\ item.title
    /\ item.midia # ""

Saida(res, posts, ledger, pasta, chamou, ext) ==
    [res |-> res, posts |-> posts, ledger |-> ledger, pasta |-> pasta,
     chamou |-> chamou, ext |-> ext]

Abandona(res, ledger, pasta, chamou, ext) ==
    Saida(res, <<>>, ledger, pasta, chamou, ext)

Emite(item, anexos, ledger, pasta, chamou, ext) ==
    Saida("emitido", <<post_final(item, anexos)>>, Registrar(ledger, item.id),
          pasta, chamou, ext)

AposFalha_m(ledger, post_id) == ledger \cup {post_id}
\* "continue" after a failed download or transcription: the ledger is left alone
AposFalha(ledger, post_id) == ledger

\* the body of "for item in post_items[:MAX_RESULTADOS_POR_BUSCA]"; chamou is
\* the set of collaborators called, ext the extension of the acquired file
processar(item, ledger, pasta, tool, x) ==
    IF item.id = SemId THEN Abandona("sem_id", ledger, pasta, {}, "")
    ELSE IF JaColetado(item.id, ledger)
    THEN Abandona("ja_coletado", ledger, pasta, {}, "")
    ELSE IF ~item.texto THEN Abandona("sem_texto", ledger, pasta, {}, "")
    ELSE IF item.username = SemUsuario THEN Abandona("sem_usuario", ledger, pasta, {}, "")
    ELSE IF ~item.title THEN Abandona("erro", ledger, pasta, {}, "")
    ELSE IF item.midia = "" THEN Emite(item, <<>>, ledger, pasta, {}, "")
    ELSE LET d == download_midia(pasta, item.id, tool)
             ext == d.caminho[2]
             limpa == remover(d.pasta, d.caminho)
         IN  IF ~d.sucesso
             THEN Abandona("falha_download", AposFalha(ledger, item.id), d.pasta,
                           {"download"}, "")
             ELSE IF ext \in ImgExts
             THEN Emite(item, Anexo(item, transcrever_imagem_ocr(x.ocr)), ledger,
                        limpa, {"download", "ocr"}, ext)
             ELSE IF ext \in VideoExts
             THEN IF midia_tem_audio(d.caminho \in d.pasta, x.probe)
                  THEN LET t == transcrever_video(x.whisper)
                       IN  IF ~t.sucesso
                           THEN Abandona("falha_transcricao",
                                         AposFalha(ledger, item.id), limpa,
                                         {"download", "ffprobe", "whisper"}, ext)
                           ELSE Emite(item, Anexo(item, t.texto), ledger, limpa,
                                      {"download", "ffprobe", "whisper"}, ext)
                  ELSE Emite(item, Anexo(item, SemTexto), ledger, limpa,
                             {"download", "ffprobe"}, ext)
             ELSE Emite(item, Anexo(item, SemTexto), ledger, limpa, {"download"}, ext)

(* ------------------------------- the state ----------------------------- *)
VARIABLES
    pc,                       \* position of the process in __main__
    posts_ja_coletados,       \* ids_coletados_global, the in-memory ledger
    novos_posts_neste_ciclo,  \* the batch of the running cycle
    arquivo_ids,              \* lines of ARQUIVO_IDS_PERSISTIDOS
    coletas,                  \* the files of PASTA_SAIDA, in order of writing
    pasta_downloads,          \* the files of PASTA_DOWNLOADS: <<id, ext>>
    driver,                   \* the browser session is open
    cookies,                  \* COOKIES_PATH exists
    termo,                    \* index of termo_busca in LISTA_DE_BUSCAS
    n_pagina,                 \* len(post_items)
    pos,                      \* index of item in post_items[:MAX_RESULTADOS_POR_BUSCA]
    ciclos,                   \* cycles started so far
    reinicios,                \* restarts so far
    web,                      \* the results of each term while they are fixed
    ult,                      \* observation: the last step of the term loop
    alvo,                     \* observation: the post identifier that is followed
    emitidos,                 \* observation: emissions of alvo in this run (up to 2)
    falhas,                   \* observation: the abandonments of alvo in this cycle
    ab_antes,                 \* observation: alvo was abandoned in an earlier cycle
                              \*              and not emitted since
    sujo,                     \* observation: the failures of this cycle
    ant,                      \* observation: the failures of the previous cycle
    dm,                       \* observation: the calls of download_midia (SpecDM)
    fn                        \* observation: the call of a text function

disco == <<arquivo_ids, coletas, pasta_downloads>>
laco == <<termo, n_pagina, pos>>
conta == <<ciclos, reinicios, web, alvo, dm, fn>>
vars == <<pc, posts_ja_coletados, novos_posts_neste_ciclo, disco, driver, cookies,
          laco, conta, ult, emitidos, falhas, ab_antes, sujo, ant>>

Termos == 1..Len(LISTA_DE_BUSCAS)

UltNada ==
    [item |-> ItemSemId, res |-> "-", ja |-> FALSE, ab |-> FALSE,
     chamou |-> {}, ext |-> "", probe |-> "-", whisper |-> TRUE, ocr |-> TRUE,
     baixou |-> FALSE]

FnNada == [f |-> "-", entrada |-> <<>>, campos |-> <<>>, livre |-> TRUE,
           saida |-> 0]

DmNada ==
    [post_id |-> SemId, pasta0 |-> {}, tool |-> <<>>,
     r |-> Resultado(FALSE, SemCaminho, {}, <<>>), n |-> 0,
     pre_ant |-> FALSE, igual |-> TRUE]

PlanoPadrao == [k \in 1..MAX_TENTATIVAS |-> RespostaFinal]

\* the state of a process that has just been started, and of its disk
InitComum ==
    /\ pc = "main"
    /\ posts_ja_coletados = {}
    /\ novos_posts_neste_ciclo = <<>>
    /\ arquivo_ids \in {<<>>, <<1>>}
    /\ coletas = <<>>
    /\ pasta_downloads = {}
    /\ driver = FALSE
    /\ cookies = FALSE
    /\ termo = 0
    /\ n_pagina = 0
    /\ pos = 0
    /\ ciclos = 0
    /\ reinicios = 0
    /\ ult = UltNada
    /\ alvo \in Ids
    /\ emitidos = 0
    /\ falhas = {}
    /\ ab_antes = FALSE
    /\ sujo = "limpo"
    /\ ant = "nenhum"
    /\ dm = DmNada
    /\ fn = FnNada

Init ==
    /\ InitComum
    /\ web = [t \in Termos |-> <<>>]

(* ------------------------------ the actions ---------------------------- *)
Morre_m ==
    /\ pc' = "fim"
    /\ posts_ja_coletados' = {}
    /\ novos_posts_neste_ciclo' = <<>>
    /\ driver' = FALSE
    /\ cookies' = FALSE
    /\ termo' = 0
    /\ n_pagina' = 0
    /\ pos' = 0
    /\ ult' = UltNada
    /\ coletas' = IF novos_posts_neste_ciclo # <<>>
                  THEN Append(coletas, novos_posts_neste_ciclo) ELSE coletas
    /\ UNCHANGED <<arquivo_ids, pasta_downloads, conta>>

Morre_m2 ==
    /\ pc' = "fim"
    /\ posts_ja_coletados' = {}
    /\ novos_posts_neste_ciclo' = <<>>
    /\ termo' = 0
    /\ n_pagina' = 0
    /\ pos' = 0
    /\ ult' = UltNada
    /\ UNCHANGED <<driver, cookies, disco, conta>>

\* the process is gone: its memory, its browser and (finally) the cookie file
Morre ==
    /\ pc' = "fim"
    /\ posts_ja_coletados' = {}
    /\ novos_posts_neste_ciclo' = <<>>
    /\ driver' = FALSE
    /\ cookies' = FALSE
    /\ termo' = 0
    /\ n_pagina' = 0
    /\ pos' = 0
    /\ ult' = UltNada
    /\ UNCHANGED <<disco, conta>>

\* ids_coletados_global = carregar_ids_ja_coletados(ARQUIVO_IDS_PERSISTIDOS)
Carregar(leituras) ==
    /\ pc = "main"
    /\ \E leitura_ok \in leituras :
           posts_ja_coletados' = carregar_ids_ja_coletados(arquivo_ids, leitura_ok)
    /\ pc' = "ciclo"
    /\ UNCHANGED <<novos_posts_neste_ciclo, disco, driver, cookies, laco, conta, ult>>

\* entry of coletar_posts_com_selenium: the batch is emptied, the browser opens
\* (or iniciar_driver raises and the process ends)
IniciarColeta ==
    /\ pc = "ciclo"
    /\ ciclos < MaxCiclos
    /\ \E driver_ok \in BOOLEAN :
           IF driver_ok
           THEN /\ pc' = "busca"
                /\ novos_posts_neste_ciclo' = <<>>
                /\ driver' = TRUE
                /\ termo' = 1
                /\ ciclos' = ciclos + 1
                /\ UNCHANGED <<posts_ja_coletados, disco, cookies, n_pagina, pos,
                               reinicios, web, alvo, dm, fn, ult>>
           ELSE Morre

FimDoTermo_m ==
    /\ n_pagina' = 0
    /\ pos' = 0
    /\ pc' = "retorno"
    /\ termo' = 0
    /\ driver' = FALSE
    /\ cookies' = FALSE

\* the end of one term: the next term, or the finally clause and the return
FimDoTermo ==
    /\ n_pagina' = 0
    /\ pos' = 0
    /\ IF termo < Len(LISTA_DE_BUSCAS)
       THEN /\ pc' = "busca"
            /\ termo' = termo + 1
            /\ UNCHANGED <<driver, cookies>>
       ELSE /\ pc' = "retorno"
            /\ termo' = 0
            /\ driver' = FALSE
            /\ cookies' = FALSE

\* driver.get, wait.until, salvar_cookies_para_yt_dlp, soup.select
Buscar(tamanhos) ==
    /\ pc = "busca"
    /\ \E r \in {"ok", "timeout", "erro"} :
           IF r = "ok"
           THEN /\ \E n \in tamanhos : n_pagina' = n
                /\ pos' = 1
                /\ pc' = "itens"
                /\ cookies' = TRUE
                /\ ult' = UltNada
                /\ UNCHANGED <<termo, driver>>
           ELSE /\ FimDoTermo
                /\ ult' = [UltNada EXCEPT !.res = "busca_falhou"]
    /\ UNCHANGED <<posts_ja_coletados, novos_posts_neste_ciclo, disco, conta>>

\* what is kept of the step of an item that is not followed
Classe(res) ==
    IF res \in {"falha_download", "falha_transcricao", "erro"} THEN res ELSE "outro"

\* one iteration of the loop over post_items; ult keeps the detail of the
\* step when the item is a listing of alvo
ProcessarItem(itens) ==
    /\ pc = "itens"
    /\ \E item \in itens :
       \E baixa \in {Baixa(item, posts_ja_coletados)} :
           \E tool \in (IF baixa THEN PlanosColeta ELSE {PlanoPadrao}) :
           \E x \in (IF baixa
                     THEN ExtracoesDe(ExtDe(download_midia(pasta_downloads, item.id, tool)))
                     ELSE {ExtracaoPadrao}) :
           \E s \in {processar(item, posts_ja_coletados, pasta_downloads, tool, x)} :
                 /\ posts_ja_coletados' = s.ledger
                 /\ novos_posts_neste_ciclo' = novos_posts_neste_ciclo \o s.posts
                 /\ pasta_downloads' = s.pasta
                 /\ IF s.res = "erro" \/ pos = Min(n_pagina, MAX_RESULTADOS_POR_BUSCA)
                    THEN FimDoTermo
                    ELSE /\ pos' = pos + 1
                         /\ UNCHANGED <<pc, termo, n_pagina, driver, cookies>>
                 /\ ult' = IF item.id = alvo
                            THEN [item |-> item, res |-> s.res,
                                  ja |-> item.id \in posts_ja_coletados,
                                  ab |-> ab_antes,
                                  chamou |-> s.chamou, ext |-> s.ext,
                                  probe |-> IF "ffprobe" \in s.chamou
                                            THEN x.probe ELSE "-",
                                  whisper |-> IF "whisper" \in s.chamou
                                              THEN x.whisper ELSE TRUE,
                                  ocr |-> IF "ocr" \in s.chamou
                                          THEN x.ocr ELSE TRUE,
                                  baixou |-> (baixa /\ ExtDe(download_midia(
                                      pasta_downloads, item.id, tool)) # "")]
                            ELSE [UltNada EXCEPT !.res = Classe(s.res)]
    /\ UNCHANGED <<arquivo_ids, coletas, conta>>

SalvarColeta_m ==
    /\ pc = "retorno"
    /\ pc' = IF novos_posts_neste_ciclo # <<>> THEN "gravado" ELSE "dormindo"
    /\ ult' = UltNada
    /\ UNCHANGED <<posts_ja_coletados, novos_posts_neste_ciclo, disco, driver,
                   cookies, laco, conta>>

\* "if novos_posts": json.dump into a new file of PASTA_SAIDA
SalvarColeta ==
    /\ pc = "retorno"
    /\ IF novos_posts_neste_ciclo # <<>>
       THEN /\ coletas' = Append(coletas, novos_posts_neste_ciclo)
            /\ pc' = "gravado"
       ELSE /\ pc' = "dormindo"
            /\ UNCHANGED coletas
    /\ ult' = UltNada
    /\ UNCHANGED <<posts_ja_coletados, novos_posts_neste_ciclo, arquivo_ids,
                   pasta_downloads, driver, cookies, laco, conta>>

\* salvar_novos_ids(ARQUIVO_IDS_PERSISTIDOS, ids_deste_ciclo)
SalvarIds ==
    /\ pc = "gravado"
    /\ \E escrita_ok \in BOOLEAN :
           arquivo_ids' = salvar_novos_ids(arquivo_ids,
                                           IdsDe(novos_posts_neste_ciclo), escrita_ok)
    /\ pc' = "dormindo"
    /\ UNCHANGED <<posts_ja_coletados, novos_posts_neste_ciclo, coletas,
                   pasta_downloads, driver, cookies, laco, conta, ult>>

Dormir_m ==
    /\ pc = "dormindo"
    /\ pc' = "fim"
    /\ UNCHANGED <<posts_ja_coletados, novos_posts_neste_ciclo, disco, driver,
                   cookies, laco, conta, ult>>

\* time.sleep(INTERVALO_COLETA_SEGUNDOS), back to the top of "while True"
Dormir ==
    /\ pc = "dormindo"
    /\ pc' = "ciclo"
    /\ UNCHANGED <<posts_ja_coletados, novos_posts_neste_ciclo, disco, driver,
                   cookies, laco, conta, ult>>

\* KeyboardInterrupt at any point of __main__
Interromper ==
    /\ pc \in {"main", "ciclo", "busca", "itens", "retorno", "gravado", "dormindo"}
    /\ Morre

\* the script is started again
Reiniciar ==
    /\ pc = "fim"
    /\ reinicios < MaxReinicios
    /\ pc' = "main"
    /\ reinicios' = reinicios + 1
    /\ UNCHANGED <<posts_ja_coletados, novos_posts_neste_ciclo, disco, driver,
                   cookies, laco, ciclos, web, alvo, dm, fn,
                   ult>>

(* ---------------------------- the observations ------------------------- *)
\* why an item was abandoned
Motivo(res) ==
    IF res = "falha_download" THEN {"download"}
    ELSE IF res = "falha_transcricao" THEN {"transcricao"}
    ELSE IF res \in {"sem_texto", "sem_usuario"} THEN {"campo"}
    ELSE {}

\* what happened to alvo: followed along the steps of the program
ObsAlvo ==
    IF pc' = "fim"
    THEN emitidos' = 0 /\ falhas' = {} /\ ab_antes' = FALSE
    ELSE IF pc = "dormindo"
    THEN /\ ab_antes' = ((ab_antes \/ falhas # {}) /\ emitidos = 0)
         /\ falhas' = {}
         /\ UNCHANGED emitidos
    ELSE IF pc = "itens" /\ ult'.item.id = alvo
    THEN /\ emitidos' = IF ult'.res = "emitido" THEN Min(emitidos + 1, 2) ELSE emitidos
         /\ falhas' = falhas \cup Motivo(ult'.res)
         /\ ab_antes' = (ab_antes /\ ult'.res # "emitido")
    ELSE UNCHANGED <<emitidos, falhas, ab_antes>>

\* the failures of a cycle: a page that was not received, or else a failed
\* download, a failed transcription or an error that ended a term
Pior(antes, res) ==
    IF res = "busca_falhou" \/ antes = "sem_resultado" THEN "sem_resultado"
    ELSE IF res \in {"falha_download", "falha_transcricao", "erro"} THEN "falha"
    ELSE antes

ObsCiclos ==
    IF pc' = "fim"
    THEN sujo' = "limpo" /\ ant' = "nenhum"
    ELSE IF pc = "dormindo"
    THEN ant' = sujo /\ sujo' = "limpo"
    ELSE sujo' = Pior(sujo, ult'.res) /\ ant' = ant

Segue == ObsAlvo /\ UNCHANGED <<sujo, ant>>

(* --------------------------- the specifications ------------------------ *)
\* one run of the process, any results
Next ==
    \/ Carregar({TRUE}) /\ Segue
    \/ IniciarColeta /\ Segue
    \/ Buscar(Tamanhos) /\ Segue
    \/ ProcessarItem(Itens) /\ Segue
    \/ SalvarColeta /\ Segue
    \/ SalvarIds /\ Segue
    \/ Dormir /\ Segue
    \/ Interromper /\ Segue

Spec == Init /\ [][Next]_vars

\* the process may be started again after it ended, and the ledger file may
\* be unreadable at startup; the listings hold posts without attachment
ItensSimples == {Completo(i, "") : i \in Ids}

NextReinicio ==
    \/ Carregar(BOOLEAN) /\ Segue
    \/ IniciarColeta /\ Segue
    \/ Buscar(Tamanhos) /\ Segue
    \/ ProcessarItem(ItensSimples) /\ Segue
    \/ SalvarColeta /\ Segue
    \/ SalvarIds /\ Segue
    \/ Dormir /\ Segue
    \/ Interromper /\ Segue
    \/ Reiniciar /\ Segue

SpecReinicio == Init /\ [][NextReinicio]_vars

\* the results of every term are fixed for the whole run: every cycle
\* receives the same listings, the collaborators answer as they like
ItensFixos ==
    {Completo(1, "video"), Completo(NumIds, ""),
     [Completo(1, "video") EXCEPT !.title = FALSE]}

PaginasFixas == SeqAte(ItensFixos, MaxItens)

InitFixo ==
    /\ InitComum
    /\ alvo = 1
    /\ arquivo_ids = <<>>
    /\ web \in [Termos -> PaginasFixas]

SegueCiclos == ObsCiclos /\ UNCHANGED <<emitidos, falhas, ab_antes>>

NextFixo ==
    \/ Carregar({TRUE}) /\ SegueCiclos
    \/ IniciarColeta /\ SegueCiclos
    \/ Buscar({Len(web[termo])}) /\ SegueCiclos
    \/ ProcessarItem({web[termo][pos]}) /\ SegueCiclos
    \/ SalvarColeta /\ SegueCiclos
    \/ SalvarIds /\ SegueCiclos
    \/ Dormir /\ SegueCiclos
    \/ Interromper /\ SegueCiclos

SpecFixo == InitFixo /\ [][NextFixo]_vars

\* download_midia alone: any directory, any post, any answers of yt-dlp, and
\* the call repeated on the directory it left
InitDM ==
    /\ InitComum
    /\ alvo = 1
    /\ arquivo_ids = <<>>
    /\ web = [t \in Termos |-> <<>>]

DirsIniciais == SUBSET (Ids \X Exts)

ChamarDownload ==
    /\ pc = "main"
    /\ dm.n < MaxChamadas
    /\ \E i \in (IF dm.n = 0 THEN Ids ELSE {dm.post_id}) :
       \E pasta \in (IF dm.n = 0 THEN DirsIniciais ELSE {pasta_downloads}) :
       \E tool \in Planos :
       \E r \in {download_midia(pasta, i, tool)} :
           /\ pasta_downloads' = r.pasta
           /\ dm' = [post_id |-> i, pasta0 |-> pasta, tool |-> tool, r |-> r,
                     n |-> dm.n + 1,
                     pre_ant |-> (dm.n >= 1 /\ glob(dm.pasta0, i) # {}),
                     igual |-> (dm.n = 0 \/ (r.sucesso = dm.r.sucesso
                                             /\ r.caminho = dm.r.caminho))]
    /\ UNCHANGED <<pc, posts_ja_coletados, novos_posts_neste_ciclo, arquivo_ids,
                   coletas, driver, cookies, laco, ciclos, reinicios, web, alvo,
                   fn, ult, emitidos, falhas, ab_antes, sujo, ant>>

NextDM == ChamarDownload

SpecDM == InitDM /\ [][NextDM]_vars

\* the process left to run: no interrupt arrives, every call returns and the
\* interpreter keeps executing the next statement
NextVivo ==
    \/ Carregar({TRUE}) /\ Segue
    \/ IniciarColeta /\ Segue
    \/ Buscar(Tamanhos) /\ Segue
    \/ ProcessarItem(Itens) /\ Segue
    \/ SalvarColeta /\ Segue
    \/ SalvarIds /\ Segue
    \/ Dormir /\ Segue

SpecVivo == Init /\ [][NextVivo]_vars /\ WF_vars(NextVivo)

\* long result pages: one item short of the cap, at the cap and beyond it;
\* the items are posts without attachment and items without permalink
TamanhosLongos ==
    (MAX_RESULTADOS_POR_BUSCA - 1)..(MAX_RESULTADOS_POR_BUSCA + MaxAlem)

ItensLongos == {Completo(1, ""), ItemSemId}

NextLongo ==
    \/ Carregar({TRUE}) /\ Segue
    \/ IniciarColeta /\ Segue
    \/ Buscar(TamanhosLongos) /\ Segue
    \/ ProcessarItem(ItensLongos) /\ Segue
    \/ SalvarColeta /\ Segue
    \/ SalvarIds /\ Segue
    \/ Dormir /\ Segue
    \/ Interromper /\ Segue

SpecLongo == Init /\ [][NextLongo]_vars

\* the post extractor alone: one page of items without attachment, with any
\* text, handle and date anchor, processed against any in-memory ledger
ItensPost ==
    {[id |-> i, texto |-> t, username |-> u, title |-> d, midia |-> ""] :
        i \in Ids, t \in BOOLEAN, u \in Elems(Usuarios) \cup {SemUsuario},
        d \in BOOLEAN}

InitPost ==
    /\ pc = "itens"
    /\ posts_ja_coletados \in SUBSET Ids
    /\ novos_posts_neste_ciclo = <<>>
    /\ arquivo_ids = <<>>
    /\ coletas = <<>>
    /\ pasta_downloads = {}
    /\ driver = TRUE
    /\ cookies = TRUE
    /\ termo = 1
    /\ n_pagina = MaxItens
    /\ pos = 1
    /\ ciclos = 1
    /\ reinicios = 0
    /\ web = [t \in Termos |-> <<>>]
    /\ ult = UltNada
    /\ alvo \in Ids
    /\ emitidos = 0
    /\ falhas = {}
    /\ ab_antes = FALSE
    /\ sujo = "limpo"
    /\ ant = "nenhum"
    /\ dm = DmNada
    /\ fn = FnNada

NextPost == ProcessarItem(ItensPost) /\ Segue

SpecPost == InitPost /\ [][NextPost]_vars

\* the state in which a text function is called
InitTexto ==
    /\ InitComum
    /\ alvo = 1
    /\ arquivo_ids = <<>>
    /\ web = [t \in Termos |-> <<>>]

\* the texts given to parse_stat_value: every text of up to MaxTexto
\* characters of Alfabeto, and the examples of the documentation
MaxTexto == 4

Alfabeto == {"1", "4", "5", ".", "K", "k", "M", " ", "x"}

Textos(alfabeto, n) == UNION {[1..k -> alfabeto] : k \in 0..n}

ExemplosStat == {<<"1", ".", "5", "K">>, <<"2", "M">>, <<>>,
                 <<"j", "u", "n", "k">>}

ChamarStat ==
    /\ pc = "main"
    /\ fn = FnNada
    /\ \E t \in Textos(Alfabeto, MaxTexto) \cup ExemplosStat :
           fn' = [f |-> "parse_stat_value", entrada |-> t,
                  campos |-> <<>>, livre |-> TRUE,
                  saida |-> parse_stat_value(t)]
    /\ UNCHANGED <<pc, posts_ja_coletados, novos_posts_neste_ciclo, disco,
                   driver, cookies, laco, ciclos, reinicios, web, alvo, dm, ult,
                   emitidos, falhas, ab_antes, sujo, ant>>

NextStat == ChamarStat

SpecStat == InitTexto /\ [][NextStat]_vars

\* the texts given to converter_data_para_iso: the texts made of the fields
\*     mes dia[,] ano [· ]hora:minuto am_pm[ UTC][ x]
\* and some texts without fields
Campos ==
    [mes : {<<"J", "a", "n">>, <<"F", "e", "b">>, <<"D", "e", "c">>,
            <<"F", "o", "o">>},
     dia : {<<"5">>, <<"2", "9">>, <<"3", "1">>},
     virgula : BOOLEAN,
     ano : {<<"2", "0", "2", "4">>, <<"2", "0", "2", "3">>},
     ponto : BOOLEAN,
     hora : {<<"1", "2">>, <<"3">>, <<"1", "3">>},
     minuto : {<<"0", "0">>, <<"4", "5">>, <<"6", "0">>},
     am_pm : {AM, PM, <<"X", "M">>},
     utc : BOOLEAN,
     extra : BOOLEAN]

Compor(c) ==
    c.mes \o <<" ">> \o c.dia \o (IF c.virgula THEN <<",">> ELSE <<>>)
        \o <<" ">> \o c.ano \o <<" ">>
        \o (IF c.ponto THEN <<"·", " ">> ELSE <<>>)
        \o c.hora \o <<":">> \o c.minuto \o <<" ">> \o c.am_pm
        \o (IF c.utc THEN <<" ", "U", "T", "C">> ELSE <<>>)
        \o (IF c.extra THEN <<" ", "x">> ELSE <<>>)

TextosLivres == {<<>>, <<" ">>, <<"j", "u", "n", "k">>,
                 <<"J", "a", "n", " ", "5">>}

ChamarData ==
    /\ pc = "main"
    /\ fn = FnNada
    /\ \/ \E c \in Campos :
              fn' = [f |-> "converter_data_para_iso", entrada |-> Compor(c),
                     campos |-> c, livre |-> FALSE,
                     saida |-> converter_data_para_iso(Compor(c))]
       \/ \E t \in TextosLivres :
              fn' = [f |-> "converter_data_para_iso", entrada |-> t,
                     campos |-> <<>>, livre |-> TRUE,
                     saida |-> converter_data_para_iso(t)]
    /\ UNCHANGED <<pc, posts_ja_coletados, novos_posts_neste_ciclo, disco,
                   driver, cookies, laco, ciclos, reinicios, web, alvo, dm, ult,
                   emitidos, falhas, ab_antes, sujo, ant>>

NextData == ChamarData

SpecData == InitTexto /\ [][NextData]_vars

(* -------------------------------- claims ------------------------------- *)
Ultimo(s) == s[Len(s)]

IdsNoLote == Elems(IdsDe(novos_posts_neste_ciclo))

AposCiclo == pc \in {"retorno", "gravado", "dormindo"}

\* C1: while a post identifier is in the in-memory ledger, no step adds a
\* record with that identifier to the batch, whatever item is processed.
C1_NaoReemiteDoLedger ==
    [][\A i \in posts_ja_coletados :
           Vezes(IdsDe(novos_posts_neste_ciclo'), i)
               <= Vezes(IdsDe(novos_posts_neste_ciclo), i)]_vars

\* a complete item whose identifier was loaded from the ledger file at
\* startup has been processed and skipped
C1_Testemunha ==
    /\ ult.ja /\ ult.res = "ja_coletado"
    /\ ult.item = Completo(alvo, "")
    /\ emitidos = 0

\* C2: no post identifier occurs in two output files, also when the process
\* was ended and started again in between.
C2_UmArquivoPorId ==
    \A a, b \in 1..Len(coletas) :
        a < b => Elems(IdsDe(coletas[a])) \cap Elems(IdsDe(coletas[b])) = {}

\* C3: within one run of the process a post identifier is emitted at most
\* once, and no batch holds two records of one identifier.
C3_UmaEmissaoPorRun ==
    /\ emitidos <= 1
    /\ \A i \in Ids : Vezes(IdsDe(novos_posts_neste_ciclo), i) <= 1

\* the followed post was emitted in this run and a complete listing of it
\* has been processed again
C3_Testemunha ==
    /\ emitidos = 1
    /\ ult.ja /\ ult.res = "ja_coletado"
    /\ ult.item.texto /\ ult.item.username # SemUsuario /\ ult.item.title

\* C4: after a cycle in which the download of a post's attachment failed, the
\* post is not in the batch of the cycle and its identifier is in the ledger
\* neither in memory nor on file.
C4_FalhaDownloadAusente ==
    (AposCiclo /\ "download" \in falhas) =>
        /\ alvo \notin IdsNoLote
        /\ alvo \notin posts_ja_coletados
        /\ alvo \notin Elems(arquivo_ids)

\* C5 as stated: the second of two cycles that received the same results for
\* every term emits nothing.
C5_SegundoCicloVazio ==
    (pc = "retorno" /\ ant \in {"limpo", "falha"} /\ sujo # "sem_resultado") =>
        novos_posts_neste_ciclo = <<>>

\* C5 as amended: the second of two cycles that received the same results
\* for every term emits nothing when the first cycle had no failed download,
\* no failed transcription and no term ended by an error.
C5_SegundoCicloVazioSemFalha ==
    (pc = "retorno" /\ ant = "limpo" /\ sujo # "sem_resultado") =>
        novos_posts_neste_ciclo = <<>>

\* the second cycle ended empty after a first cycle without failure that
\* wrote a file
C5_Testemunha ==
    /\ pc = "retorno" /\ ant = "limpo" /\ sujo = "limpo"
    /\ novos_posts_neste_ciclo = <<>>
    /\ coletas # <<>>

\* C6: a post abandoned in an earlier cycle (failed download, failed
\* transcription or missing field) and not emitted since is emitted when it is
\* listed again, complete, and the download and the transcription succeed.
C6_AbandonadoElegivel ==
    (/\ ult.ab
     /\ ult.item.texto /\ ult.item.username # SemUsuario /\ ult.item.title
     /\ ult.res \notin {"falha_download", "falha_transcricao"}) =>
        /\ ult.res = "emitido"
        /\ novos_posts_neste_ciclo # <<>>
        /\ Ultimo(novos_posts_neste_ciclo).id_post = alvo

\* a post abandoned in an earlier cycle has been downloaded and emitted
C6_Testemunha ==
    /\ ult.ab /\ ult.res = "emitido"
    /\ "download" \in ult.chamou

\* C7: after a cycle in which the transcription of a post's video failed, the
\* post is not in the batch of the cycle and its identifier is not in the ledger.
C7_FalhaTranscricaoAusente ==
    (AposCiclo /\ "transcricao" \in falhas) =>
        /\ alvo \notin IdsNoLote
        /\ alvo \notin posts_ja_coletados
        /\ alvo \notin Elems(arquivo_ids)

\* C8: a downloaded video for which the audio check answers false (no audio
\* stream, or ffprobe failed) is not transcribed; the post is emitted with one
\* attachment without text and its identifier enters the ledger.
C8_VideoSemAudio ==
    (ult.ext \in VideoExts /\ ult.probe \in {"sem_audio", "erro"}) =>
        /\ "whisper" \notin ult.chamou
        /\ ult.res = "emitido"
        /\ novos_posts_neste_ciclo # <<>>
        /\ Ultimo(novos_posts_neste_ciclo).id_post = alvo
        /\ Ultimo(novos_posts_neste_ciclo).anexos = <<[transcricao |-> SemTexto]>>
        /\ alvo \in posts_ja_coletados

\* a video was downloaded and ffprobe failed on it
C8_Testemunha ==
    /\ ult.ext \in VideoExts /\ ult.probe = "erro"
    /\ ult.res = "emitido"

\* C9: a call that finds no file of the post runs yt-dlp at most 3 times, runs
\* it again only after a 403, fails at once on any other failure, sleeps only
\* between two runs, and fails when the three runs were blocked.
C9_Tentativas ==
    (dm.n >= 1 /\ glob(dm.pasta0, dm.post_id) = {}) =>
        LET ev == dm.r.eventos
            k == Chamadas(ev)
        IN  /\ dm.r.sucesso \in BOOLEAN
            /\ k >= 1 /\ k <= 3
            /\ \A j \in 2..k : dm.tool[j - 1].res = "e403"
            /\ dm.tool[k].res \in {"erro", "timeout"} => ~dm.r.sucesso
            /\ (dm.tool[k].res = "ok" /\ glob(dm.r.pasta, dm.post_id) = {})
                   => ~dm.r.sucesso
            /\ \A j \in 1..Len(ev) :
                   ev[j] = "sleep" =>
                       /\ j > 1 /\ j < Len(ev)
                       /\ ev[j - 1] = "yt-dlp" /\ ev[j + 1] = "yt-dlp"
            /\ (\A j \in 1..3 : dm.tool[j].res = "e403") => (k = 3 /\ ~dm.r.sucesso)

\* the three runs were blocked
C9_Testemunha ==
    /\ dm.n >= 1 /\ glob(dm.pasta0, dm.post_id) = {}
    /\ Chamadas(dm.r.eventos) = 3
    /\ \A j \in 1..3 : dm.tool[j].res = "e403"
    /\ ~dm.r.sucesso

\* C10: a call that finds a file of the post returns it, runs yt-dlp zero
\* times and leaves the directory as it was; the call repeated returns the same.
C10_ArquivoExistente ==
    (dm.n >= 1 /\ glob(dm.pasta0, dm.post_id) # {}) =>
        /\ dm.r.sucesso
        /\ dm.r.caminho \in glob(dm.pasta0, dm.post_id)
        /\ Chamadas(dm.r.eventos) = 0
        /\ dm.r.eventos = <<>>
        /\ pasta_downloads = dm.pasta0
        /\ dm.pre_ant => dm.igual

\* the call was repeated on a directory that held a file of the post
C10_Testemunha ==
    /\ dm.n = 2 /\ dm.pre_ant /\ dm.igual
    /\ glob(dm.pasta0, dm.post_id) # {}
    /\ dm.r.sucesso

\* C11: with DELETAR_MIDIA_APOS_COLETA set, after the step that processed a
\* listing of a post with an attachment (emitted, abandoned on a failed
\* transcription or abandoned on a failed download) the download directory
\* holds no file of that post.
C11_SemMidiaDepois ==
    (DELETAR_MIDIA_APOS_COLETA /\ "download" \in ult.chamou) =>
        glob(pasta_downloads, alvo) = {}

\* C12: a step in which a search fails (timeout or error) or an item raises
\* ends only the running term: the batch is kept and the loop goes on to the
\* search of the next term, or to the return after the last term.
C12_ErroSoDoTermo ==
    [][(pc \in {"busca", "itens"} /\ pc' # "fim"
        /\ ult'.res \in {"busca_falhou", "erro"}) =>
           /\ novos_posts_neste_ciclo' = novos_posts_neste_ciclo
           /\ posts_ja_coletados' = posts_ja_coletados
           /\ (IF termo < Len(LISTA_DE_BUSCAS)
               THEN pc' = "busca" /\ termo' = termo + 1
               ELSE pc' = "retorno")]_vars

\* the first term was ended by an error after a post had been emitted, and
\* the search of the second term is next with the post still in the batch
C12_Testemunha ==
    /\ pc = "busca" /\ termo = 2
    /\ ult.res = "erro"
    /\ novos_posts_neste_ciclo # <<>>

\* C13: the step after the return of the cycle writes one file holding the
\* batch when the batch is not empty, and the step after it appends exactly
\* the identifiers of the batch to the ledger file; with an empty batch no
\* file is written and the ledger file is left alone; no other step of the
\* process writes either.
C13_GravacaoDoCiclo ==
    [][pc' # "fim" =>
         (IF pc = "retorno" /\ novos_posts_neste_ciclo # <<>>
          THEN /\ coletas' = Append(coletas, novos_posts_neste_ciclo)
               /\ arquivo_ids' = arquivo_ids
               /\ pc' = "gravado"
          ELSE IF pc = "gravado"
          THEN /\ coletas' = coletas
               /\ arquivo_ids' = arquivo_ids \o IdsDe(novos_posts_neste_ciclo)
               /\ pc' = "dormindo"
          ELSE coletas' = coletas /\ arquivo_ids' = arquivo_ids)]_vars

\* C14: no step taken while the cycle is processing its terms, the end of
\* the process included, changes the ledger file or the output directory.
C14_SemEscritaNoCiclo ==
    [][(pc \in {"ciclo", "busca", "itens"}) =>
           (arquivo_ids' = arquivo_ids /\ coletas' = coletas)]_vars

\* the second cycle has emitted a post and is still processing its terms; the
\* first cycle wrote its file and its identifiers
C14_Testemunha ==
    /\ pc = "itens" /\ ciclos = 2
    /\ ult.res = "emitido"
    /\ Len(coletas) = 1
    /\ arquivo_ids = IdsDe(coletas[1])

C16_PostSimples ==
    (/\ ult.item.id = alvo /\ ~ult.ja
     /\ ult.item.texto /\ ult.item.username # SemUsuario
     /\ ult.item.midia = "") =>
        /\ ult.res = "emitido"
        /\ ult.chamou = {}
        /\ Vezes(IdsDe(novos_posts_neste_ciclo), alvo) = 1
        /\ novos_posts_neste_ciclo # <<>>
        /\ Ultimo(novos_posts_neste_ciclo)
               = [id_post |-> alvo,
                  id_pseudonimizado |->
                      [sha256 |-> ult.item.username \o "dAurora_Salt"],
                  anexos |-> <<>>]
        /\ alvo \in posts_ja_coletados

\* C17: without an interrupt, a cycle that has started its searches reaches
\* the sleep, whatever searches fail and whatever posts are abandoned; after
\* the sleep the next cycle starts its searches unless the browser cannot be
\* started; and the process ends nowhere but at the start of a cycle.
C17_LacoContinua ==
    /\ (pc = "busca") ~> (pc = "dormindo")
    /\ (pc = "dormindo" /\ ciclos < MaxCiclos) ~> (pc = "busca" \/ pc = "fim")
    /\ [][(pc' = "fim") => (pc \in {"ciclo", "fim"})]_vars

\* the second cycle reached the sleep although the followed post was
\* abandoned in it
C17_Testemunha ==
    /\ pc = "dormindo" /\ ciclos = 2
    /\ falhas # {}

\* C20: in the pass over the result page of a term the items are processed in
\* document order, one position per step whether the item is skipped or
\* emitted, and no position beyond MAX_RESULTADOS_POR_BUSCA is processed:
\* the step at that position ends the pass.
C20_SoOsPrimeiros ==
    [][(pc = "itens") =>
           /\ pos <= MAX_RESULTADOS_POR_BUSCA
           /\ (pc' = "itens" => pos' = pos + 1)
           /\ (pos = MAX_RESULTADOS_POR_BUSCA => pc' # "itens")]_vars

\* the pass over a page longer than the cap is at the last position allowed,
\* every earlier item having been skipped
C20_Testemunha ==
    /\ pc = "itens"
    /\ pos = MAX_RESULTADOS_POR_BUSCA /\ n_pagina > MAX_RESULTADOS_POR_BUSCA
    /\ ult.res = "outro"
    /\ novos_posts_neste_ciclo = <<>>


\* C18: parse_stat_value returns, for every text, the number written by the
\* digits and "." of the text multiplied by 1,000 when the text has a "k" and
\* by 1,000,000 when it has an "m" (in either case of the letter), cut to a
\* non-negative integer, and 0 for the empty text and for a text whose digits
\* and "." are not a number ("1.5K" gives 1500, "2M" 2000000, "" and "junk" 0).
\* A text with both letters is only required to give a non-negative integer.
C18_Lido(t) ==
    LET l == lower(t)
        num == LET DoNumero(c) == Digito(c) \/ c = "." IN SelectSeq(l, DoNumero)
    IN  IF Numero(num)
        THEN (Numerador(num) * multiplicador(l)) \div Denominador(num)
        ELSE 0

C18_ValorDoTexto ==
    (fn.f = "parse_stat_value") =>
        /\ fn.saida \in Nat
        /\ ~(Contem(lower(fn.entrada), "k") /\ Contem(lower(fn.entrada), "m"))
               => fn.saida = C18_Lido(fn.entrada)


\* The fields of a composed text as the claim reads them.
C19_Hora(c) ==
    IF c.am_pm = AM THEN (IF Inteiro(c.hora) = 12 THEN 0 ELSE Inteiro(c.hora))
    ELSE IF c.am_pm = PM
    THEN (IF Inteiro(c.hora) = 12 THEN 12 ELSE Inteiro(c.hora) + 12)
    ELSE Inteiro(c.hora)

C19_DataExiste(c) ==
    /\ EhMes(c.mes)
    /\ Inteiro(c.dia) \in 1..DiasDoMes(Inteiro(c.ano), meses(c.mes))
    /\ Inteiro(c.minuto) \in 0..59

C19_BemFormado(c) ==
    /\ C19_DataExiste(c)
    /\ c.virgula /\ c.ponto /\ c.utc /\ ~c.extra
    /\ c.am_pm \in {AM, PM}
    /\ Inteiro(c.hora) \in 1..12

C19_Legivel(c) == C19_DataExiste(c) /\ C19_Hora(c) \in 0..23

C19_Iso(c) ==
    c.ano \o <<"-">> \o Dois(meses(c.mes)) \o <<"-">>
        \o (IF Len(c.dia) = 1 THEN <<"0">> ELSE <<>>) \o c.dia \o <<"T">>
        \o Dois(C19_Hora(c)) \o <<":">> \o c.minuto \o <<":", "0", "0", "Z">>

\* C19 (as stated): converter_data_para_iso turns a well-formed
\* "Mon D, YYYY · H:MM AM/PM UTC" text into the ISO-8601 text of the same date
\* with the hour of the day (12 AM is 00, 12 PM is 12, another PM hour gains
\* 12, an AM hour is kept) and no shift of time zone, and returns every other
\* text unchanged.
C19_DataIso ==
    (fn.f = "converter_data_para_iso") =>
        IF ~fn.livre /\ C19_BemFormado(fn.campos)
        THEN fn.saida = Str(C19_Iso(fn.campos))
        ELSE fn.saida = Str(fn.entrada)

\* C19 (amended): converter_data_para_iso turns a well-formed text into the
\* ISO-8601 text as above; it returns None for the empty text; it converts in
\* the same way every text whose fields are a month, a day, a year, H:MM and
\* a marker that make a date and a time of day, with or without the comma, the
\* "· ", the " UTC" and further fields, the hour being kept when the marker is
\* neither AM nor PM; it returns every other text unchanged.
C19_DataIsoOuTexto ==
    (fn.f = "converter_data_para_iso") =>
        /\ (~fn.livre /\ C19_BemFormado(fn.campos))
               => fn.saida = Str(C19_Iso(fn.campos))
        /\ (fn.entrada = <<>>) => fn.saida = None
        /\ (~fn.livre /\ C19_Legivel(fn.campos))
               => fn.saida = Str(C19_Iso(fn.campos))
        /\ (fn.entrada # <<>> /\ (fn.livre \/ ~C19_Legivel(fn.campos)))
               => fn.saida = Str(fn.entrada)

\* a well-formed text of 12 AM was converted to hour 00
C19_Testemunha ==
    /\ fn.f = "converter_data_para_iso"
    /\ ~fn.livre
    /\ C19_BemFormado(fn.campos)
    /\ fn.campos.hora = <<"1", "2">>
    /\ fn.campos.am_pm = AM
    /\ fn.saida = Str(C19_Iso(fn.campos))
    /\ SubSeq(fn.saida.str, 12, 13) = <<"0", "0">>


\* C21: in every emitted post an attachment is present only if download_midia
\* was called for the post and succeeded, and the text of the attachment is
\* not None only if the OCR or the transcription was run on the acquired file
\* and succeeded; a failed OCR leaves the text None and the post is emitted.
C21_AnexoSoComMidia ==
    /\ (ult.res = "emitido") =>
           /\ novos_posts_neste_ciclo # <<>>
           /\ Ultimo(novos_posts_neste_ciclo).id_post = alvo
           /\ (Ultimo(novos_posts_neste_ciclo).anexos # <<>>) =>
                  /\ ult.item.midia # ""
                  /\ "download" \in ult.chamou
                  /\ ult.baixou
                  /\ Len(Ultimo(novos_posts_neste_ciclo).anexos) = 1
           /\ \A k \in 1..Len(Ultimo(novos_posts_neste_ciclo).anexos) :
                  (Ultimo(novos_posts_neste_ciclo).anexos[k].transcricao # SemTexto)
                      => \/ /\ ult.ext \in ImgExts
                            /\ "ocr" \in ult.chamou /\ ult.ocr
                         \/ /\ ult.ext \in VideoExts
                            /\ "whisper" \in ult.chamou /\ ult.whisper
    /\ ("ocr" \in ult.chamou /\ ~ult.ocr) =>
           /\ ult.res = "emitido"
           /\ Ultimo(novos_posts_neste_ciclo).anexos = <<[transcricao |-> SemTexto]>>
           /\ alvo \in posts_ja_coletados

\* the OCR of a downloaded image failed and the post was emitted
C21_Testemunha ==
    /\ ult.res = "emitido"
    /\ ult.ext \in ImgExts
    /\ "ocr" \in ult.chamou /\ ~ult.ocr
    /\ ult.baixou
    /\ Ultimo(novos_posts_neste_ciclo).anexos = <<[transcricao |-> SemTexto]>>


\* the identifiers of the output files written so far
IdsGravados == UNION {Elems(IdsDe(coletas[j])) : j \in 1..Len(coletas)}

\* C22: at every moment every identifier of the ledger file that was not in
\* it when the process started is in an output file written by the process;
\* the ledger file only grows at its end, and the step that appends to it
\* finds the identifiers in an output file that was written before the step.
C22_LedgerDepoisDoArquivo ==
    /\ \A inicial \in {<<>>, <<1>>} :
           (arquivo_ids = inicial) =>
               [](\A k \in (Len(inicial) + 1)..Len(arquivo_ids) :
                      arquivo_ids[k] \in IdsGravados)
    /\ [][(arquivo_ids' # arquivo_ids) =>
              /\ coletas' = coletas
              /\ SubSeq(arquivo_ids', 1, Len(arquivo_ids)) = arquivo_ids
              /\ \A k \in (Len(arquivo_ids) + 1)..Len(arquivo_ids') :
                     arquivo_ids'[k] \in IdsGravados]_vars
    /\ [][\A j \in 1..Len(coletas) :
              j <= Len(coletas') /\ coletas'[j] = coletas[j]]_vars

\* the cycle wrote a file of two posts and then their identifiers, and the
\* ledger file was empty before
C22_Testemunha ==
    /\ pc = "dormindo"
    /\ Len(coletas) = 1
    /\ Len(arquivo_ids) = 2
    /\ arquivo_ids = IdsDe(coletas[1])

=============================================================================
